---- MODULE Spec2Model ----
(***************************************************************************)
(* Session / token lifecycle of the express_node user backend.             *)
(*                                                                         *)
(* State: the users collection of the document store, the wall clock (in   *)
(* seconds, the resolution of a JWT's iat/exp claims), the requests that   *)
(* are in flight (one record per request, holding the handler's position   *)
(* and its locals), for each account the refresh token its latest          *)
(* rotation consumed, and the HTTP exchange that has just completed (it    *)
(* stays until the client has taken the response).                         *)
(*                                                                         *)
(* One action per atomic step of a handler.  A handler runs without        *)
(* interruption between two awaits; every await on the document store is   *)
(* one read or one write of the store, so a handler is cut exactly at its  *)
(* store operations and the code around each operation belongs to the      *)
(* same step.                                                              *)
(*                                                                         *)
(* The server attaches to a persistent database (src/src/db/db_index.js),  *)
(* so Init ranges over the stores it can find there: accounts with or      *)
(* without a stored refresh token, the tokens having been signed by        *)
(* generateAccessAndRefreshToken at second 0.                              *)
(***************************************************************************)
EXTENDS Integers, FiniteSets, Sequences, TLC

\* ----------------------------------------------------------------- bounds
NumAccounts == 2
NumReqs == 2
MaxTime == 2
\* process.env.ACCESS_TOKEN_EXPIRY and REFRESH_TOKEN_EXPIRY, in seconds
AccessTTL == 1
RefreshTTL == 2

Ids == 1..NumAccounts
Reqs == 1..NumReqs

\* ------------------------------------------------------------- JS values
Undefined == [js |-> "undefined"]
Null == [js |-> "null"]
\* a string value
Str(s) == [str |-> s]
EmptyString == Str("")
\* the string "undefined", which a client sends when it serialises a missing value
LiteralUndefined == Str("undefined")
\* a string that differs from Str(s) in how it is written: "upper" is s
\* with capital letters in it, "padded" is s with white space around it
Written(s, form) == [str |-> s, form |-> form]

\* the string "undefined" with white space around it
PaddedUndefined == Written("undefined", "padded")

\* String(v).trim(), and the schema's trim: true
Trim(v) ==
    IF "form" \in DOMAIN v /\ v.form = "padded" THEN Str(v.str) ELSE v

\* v.toLowerCase(), and the schema's lowercase: true
ToLowerCase(v) ==
    IF "form" \in DOMAIN v /\ v.form = "upper" THEN Str(v.str) ELSE v

Falsy == {Undefined, Null, EmptyString}
Truthy(v) == v \notin Falsy

\* a || b
Or(a, b) == IF Truthy(a) THEN a ELSE b

\* ------------------------------------------------------ envelopes, errors
\* new ApiError(statusCode, message): an Error with the fields the class adds
ApiError(statusCode, message) ==
    [name |-> "Error", statusCode |-> statusCode, data |-> Null,
     message |-> message, success |-> FALSE, errors |-> <<>>]

\* an envelope that reports success whatever its status
ApiResponseAlwaysSuccess(statusCode, data, message) ==
    [statusCode |-> statusCode, data |-> data, message |-> message,
     success |-> TRUE]

\* new ApiResponse(statusCode, data, message)
ApiResponse(statusCode, data, message) ==
    [statusCode |-> statusCode, data |-> data, message |-> message,
     success |-> statusCode < 400]

\* an error of the runtime or of a library: it carries no statusCode
PlainError(name, message) == [name |-> name, message |-> message]

\* the status of the response: the one the handler set, or the one Express
\* gives an error that reached next(error), for which the app registers no
\* handler of its own: its statusCode, or 500 when it has none
ResponseStatus(out) ==
    IF out.kind = "json" THEN out.status
    ELSE IF "statusCode" \in DOMAIN out.error THEN out.error.statusCode
    ELSE 500

\* asyncHandler: a rejection of the handler goes to next(error)
Raised(error) == [kind |-> "error", error |-> error]
\* res.status(s).cookie(...).json(body)
Json(status, cookies, body) ==
    [kind |-> "json", status |-> status, cookies |-> cookies, body |-> body]

\* ---------------------------------------------------------------- tokens
AccessSecret == "ACCESS_TOKEN_SECRET"
RefreshSecret == "REFRESH_TOKEN_SECRET"

\* jwt.sign(payload, secret, {expiresIn}): a deterministic function of the
\* payload, the secret and the second it is called in
JwtSign(payload, secret, ttl, t) ==
    [payload |-> payload, secret |-> secret, iat |-> t, exp |-> t + ttl]

IsJwt(token) == DOMAIN token = {"payload", "secret", "iat", "exp"}

\* jwt.verify(token, secret): the decoded payload, or the error it throws
JwtVerify(token, secret, t) ==
    IF ~IsJwt(token)
    THEN [ok |-> FALSE, error |-> PlainError("JsonWebTokenError", "jwt malformed")]
    ELSE IF token.secret # secret
    THEN [ok |-> FALSE, error |-> PlainError("JsonWebTokenError", "invalid signature")]
    ELSE IF t >= token.exp
    THEN [ok |-> FALSE, error |-> PlainError("TokenExpiredError", "jwt expired")]
    ELSE [ok |-> TRUE, payload |-> token.payload]

\* ------------------------------------------------------------ user model
Usernames == <<Str("alice"), Str("bob"), Str("carol"), Str("dave")>>
Emails == <<Str("alice@x.com"), Str("bob@x.com"), Str("carol@x.com"), Str("dave@x.com")>>
FullNames == <<Str("Alice A"), Str("Bob B"), Str("Carol C"), Str("Dave D")>>
Passwords == <<Str("Abcd1234!"), Str("Bcde2345!"), Str("Cdef3456!"), Str("Defg4567!")>>

\* bcrypt.hash(plain, 10) and bcrypt.compare(plain, digest); the salt is left out
BcryptHash(plain) == [bcrypt |-> plain]
BcryptCompare(plain, digest) == digest = BcryptHash(plain)

\* the instance methods the schema registers: userSchema.methods.<name> = ...
\* isPasswordCorrect is assigned to userSchema.method (the registration
\* function itself), so no document carries it
UserMethods == {"generateAccessToken", "generateRefreshToken"}

generateAccessToken(user, t) ==
    JwtSign([_id |-> user._id, email |-> user.email, username |-> user.username,
             fullName |-> user.fullName], AccessSecret, AccessTTL, t)

generateRefreshToken(user, t) ==
    JwtSign([_id |-> user._id], RefreshSecret, RefreshTTL, t)

\* the url Cloudinary gives an uploaded avatar; the cover image of an
\* account registered without one
AvatarUrl == Str("http://res.cloudinary.com/demo/image/upload/v1/avatar.png")
NoCoverImage == EmptyString

\* a document of the users collection
UserDoc(id, refreshToken) ==
    [_id |-> id, username |-> Usernames[id], email |-> Emails[id],
     fullName |-> FullNames[id], password |-> BcryptHash(Passwords[id]),
     avatar |-> AvatarUrl, coverImage |-> NoCoverImage,
     refreshToken |-> refreshToken]

\* the setters of a String path with lowercase: true and trim: true: they run
\* when a document is built, when an update sets the path and when a filter
\* names it
Stored(v) == ToLowerCase(Trim(v))

\* a projection that excludes nothing
SelectAll(doc, excluded) == doc

\* .select("-password -refreshToken")
Select(doc, excluded) == [f \in (DOMAIN doc) \ excluded |-> doc[f]]

\* a token that no secret of the server signed
ForgedToken == JwtSign([_id |-> 1], "attacker", MaxTime + RefreshTTL + 1, 0)

VARIABLES users, now, reqs, rotated, res, subscriptions, assets
vars == <<users, now, reqs, rotated, res, subscriptions, assets>>

Idle == [pc |-> "idle"]
NoExchange == [op |-> "none"]

\* a lookup that finds an account under every id of the range
FindByIdAny(id) == IF id \in Ids THEN [_id |-> id] ELSE Null

\* User.findById(id)
FindById(id) == IF id \in DOMAIN users THEN users[id] ELSE Null

\* the pair signed at second 0 for account i, and the account as stored then
SeedRefreshToken(i) == generateRefreshToken(UserDoc(i, Undefined), 0)
SeedAccessToken(i) == generateAccessToken(UserDoc(i, Undefined), 0)
SeedUser(i) == UserDoc(i, SeedRefreshToken(i))

Init ==
    /\ now = 0
    /\ users \in {u \in [Ids -> {Null} \cup {SeedUser(i) : i \in Ids}] :
                    /\ u[1] # Null
                    /\ \A i \in Ids : u[i] # Null => u[i]._id = i}
    /\ reqs = [r \in Reqs |-> Idle]
    /\ rotated = [i \in Ids |-> Undefined]
    /\ res = NoExchange
    /\ subscriptions = [edge \in Ids \X Ids |-> 0]
    /\ assets = {AvatarUrl}

\* the clock moves on by a second
Tick ==
    /\ res = NoExchange
    /\ now < MaxTime
    /\ now' = now + 1
    /\ UNCHANGED <<users, reqs, rotated, res>>
    /\ UNCHANGED <<subscriptions, assets>>

\* the client takes the response off the wire
Deliver ==
    /\ res # NoExchange
    /\ res' = NoExchange
    /\ UNCHANGED <<users, now, reqs, rotated>>
    /\ UNCHANGED <<subscriptions, assets>>

\* a request is taken up by the first free slot, once the last response is out
Accepts(r) ==
    /\ res = NoExchange
    /\ reqs[r] = Idle
    /\ \A q \in Reqs : q < r => reqs[q] # Idle

\* the token was consumed by the account's latest successful rotation
Stale(token) == \E i \in Ids : rotated[i] = token

\* the refresh tokens the store shows to have been issued: the seeds, the
\* stored ones, the rotated ones; and the access tokens signed along with them
IssuedRefreshTokens ==
    {t \in {SeedRefreshToken(i) : i \in Ids}
           \cup {rotated[i] : i \in Ids}
           \cup {IF users[i] = Null THEN Undefined ELSE users[i].refreshToken : i \in Ids} :
        t # Undefined}

IssuedAccessTokens ==
    {generateAccessToken(UserDoc(t.payload._id, Undefined), t.iat) : t \in IssuedRefreshTokens}

\* ------------------------------------------------- refreshAccessToken
\* what a client can send as a refresh token
RefreshPresentable ==
    IssuedRefreshTokens
    \cup {SeedAccessToken(1), ForgedToken, Undefined, EmptyString, LiteralUndefined,
          PaddedUndefined}

RefreshRequests ==
    {[cookies |-> [refreshToken |-> c], body |-> [refreshToken |-> Undefined]]
        : c \in RefreshPresentable}
    \cup {[cookies |-> [refreshToken |-> Undefined], body |-> [refreshToken |-> b]]
        : b \in RefreshPresentable}

\* the requests of the concurrent runs: an issued token in the cookie
RefreshRequestsFew ==
    {[cookies |-> [refreshToken |-> c], body |-> [refreshToken |-> Undefined]]
        : c \in IssuedRefreshTokens}

\* catch (error) { throw error }
RethrowAsIs(error, fallback) == error

\* catch (error) { throw new ApiError(401, error?.message || fallback) }
Rethrow401(error, fallback) ==
    ApiError(401, IF error.message # "" THEN error.message ELSE fallback)

\* the handler without its comparison of the token with the stored value
RefreshCheckUnkept(incoming) ==
    LET decoded == JwtVerify(incoming, RefreshSecret, now) IN
    IF ~decoded.ok
    THEN [ok |-> FALSE, error |-> Rethrow401(decoded.error, "Invalid refresh token")]
    ELSE IF FindById(decoded.payload._id) = Null
    THEN [ok |-> FALSE, error |-> ApiError(401, "Invalid Refresh Token")]
    ELSE [ok |-> TRUE, userId |-> decoded.payload._id]

\* the handler without its test for a missing token
RefreshCheckUnguarded(incoming) ==
    LET decoded == JwtVerify(incoming, RefreshSecret, now) IN
    IF ~decoded.ok
    THEN [ok |-> FALSE, error |-> Rethrow401(decoded.error, "Invalid refresh token")]
    ELSE LET user == FindById(decoded.payload._id) IN
         IF user = Null
         THEN [ok |-> FALSE, error |-> ApiError(401, "Invalid Refresh Token")]
         ELSE IF incoming # user.refreshToken
         THEN [ok |-> FALSE, error |-> ApiError(401, "Refresh token is expired or used")]
         ELSE [ok |-> TRUE, userId |-> user._id]

\* the handler up to its call of generateAccessAndRefreshToken: the error it
\* throws, or the account it goes on with
RefreshCheck(incoming) ==
    IF ~Truthy(incoming) \/ Trim(incoming) = LiteralUndefined
    THEN [ok |-> FALSE,
          error |-> ApiError(401, "Unauthorized request, refresh token is undefined")]
    ELSE LET decoded == JwtVerify(incoming, RefreshSecret, now) IN
         IF ~decoded.ok
         THEN [ok |-> FALSE, error |-> Rethrow401(decoded.error, "Invalid refresh token")]
         ELSE LET user == FindById(decoded.payload._id) IN
              IF user = Null
              THEN [ok |-> FALSE,
                    error |-> Rethrow401(ApiError(401, "Invalid Refresh Token"),
                                         "Invalid refresh token")]
              ELSE IF incoming # user.refreshToken
              THEN [ok |-> FALSE,
                    error |-> Rethrow401(ApiError(401, "Refresh token is expired or used"),
                                         "Invalid refresh token")]
              ELSE [ok |-> TRUE, userId |-> user._id]

\* a handler that answers a refused token by emptying the stored one
RefreshStartRevoking(r, requests) ==
    /\ Accepts(r)
    /\ \E request \in requests :
         LET incoming == Or(request.cookies.refreshToken, request.body.refreshToken)
             check == RefreshCheck(incoming)
             decoded == JwtVerify(incoming, RefreshSecret, now)
             call == [request |-> request, incoming |-> incoming, at |-> now,
                      stale |-> Stale(incoming),
                      found |-> IF decoded.ok THEN FindById(decoded.payload._id)
                                ELSE Null]
         IN  IF check.ok
             THEN /\ reqs' = [reqs EXCEPT ![r] =
                        [pc |-> "generate", op |-> "refresh", call |-> call,
                         userId |-> check.userId]]
                  /\ UNCHANGED <<res, users>>
             ELSE /\ res' = [op |-> "refresh", call |-> call, out |-> Raised(check.error)]
                  /\ users' = IF call.found = Null THEN users
                               ELSE [users EXCEPT ![call.found._id].refreshToken = Undefined]
                  /\ UNCHANGED reqs
    /\ UNCHANGED <<now, rotated>>
    /\ UNCHANGED <<subscriptions, assets>>

\* POST /refresh-token, up to the call of generateAccessAndRefreshToken
RefreshStart(r, requests) ==
    /\ Accepts(r)
    /\ \E request \in requests :
         LET incoming == Or(request.cookies.refreshToken, request.body.refreshToken)
             check == RefreshCheck(incoming)
             decoded == JwtVerify(incoming, RefreshSecret, now)
             call == [request |-> request, incoming |-> incoming, at |-> now,
                      stale |-> Stale(incoming),
                      found |-> IF decoded.ok THEN FindById(decoded.payload._id)
                                ELSE Null]
         IN  IF check.ok
             THEN /\ reqs' = [reqs EXCEPT ![r] =
                        [pc |-> "generate", op |-> "refresh", call |-> call,
                         userId |-> check.userId]]
                  /\ UNCHANGED res
             ELSE /\ res' = [op |-> "refresh", call |-> call, out |-> Raised(check.error)]
                  /\ UNCHANGED reqs
    /\ UNCHANGED <<users, now, rotated>>
    /\ UNCHANGED <<subscriptions, assets>>

\* ------------------------------------- generateAccessAndRefreshToken
\* what the caller makes of the ApiError(500) the function throws
IssueFailed(op) ==
    LET error == ApiError(500, "Something went wrong while generating refresh and access token")
    IN  IF op = "refresh" THEN Rethrow401(error, "Invalid refresh token") ELSE error

\* lines 20-26: read the account, sign the pair
GenerateSign(r) ==
    /\ res = NoExchange
    /\ reqs[r].pc = "generate"
    /\ LET user == FindById(reqs[r].userId) IN
         IF user = Null
         THEN /\ res' = [op |-> reqs[r].op, call |-> reqs[r].call,
                         out |-> Raised(IssueFailed(reqs[r].op))]
              /\ reqs' = [reqs EXCEPT ![r] = Idle]
         ELSE /\ reqs' = [reqs EXCEPT ![r] =
                    [pc |-> "save", op |-> reqs[r].op, call |-> reqs[r].call,
                     userId |-> reqs[r].userId,
                     accessToken |-> generateAccessToken(user, now),
                     refreshToken |-> generateRefreshToken(user, now)]]
              /\ UNCHANGED res
    /\ UNCHANGED <<users, now, rotated>>
    /\ UNCHANGED <<subscriptions, assets>>

\* the save is lost
SaveNothing(id, refreshToken) == users

\* user.refreshToken = refreshToken; await user.save({validateBeforeSave: false})
SaveRefreshToken(id, refreshToken) ==
    [users EXCEPT ![id].refreshToken = refreshToken]

\* lines 30-36: store the refresh token, return the pair; the caller responds
GenerateSave(r) ==
    /\ res = NoExchange
    /\ reqs[r].pc = "save"
    /\ users' = SaveRefreshToken(reqs[r].userId, reqs[r].refreshToken)
    /\ LET pair == [accessToken |-> reqs[r].accessToken,
                    refreshToken |-> reqs[r].refreshToken]
       IN  IF reqs[r].op = "refresh"
           THEN /\ res' = [op |-> "refresh", call |-> reqs[r].call,
                           out |-> Json(200, pair,
                                        ApiResponse(200, pair, "AccessToken Refreshed"))]
                /\ rotated' = [rotated EXCEPT ![reqs[r].userId] = reqs[r].call.incoming]
           ELSE /\ res' = [op |-> "login", call |-> reqs[r].call,
                           out |-> Json(200, pair,
                                ApiResponse(200,
                                    [user |-> Select(users'[reqs[r].userId],
                                                     {"password", "refreshToken"}),
                                     accessToken |-> pair.accessToken,
                                     refreshToken |-> pair.refreshToken],
                                    "User logged in successfully"))]
                /\ UNCHANGED rotated
    /\ reqs' = [reqs EXCEPT ![r] = Idle]
    /\ UNCHANGED now
    /\ UNCHANGED <<subscriptions, assets>>

\* jwt.sign throws (lines 23-26), or the store rejects the save (line 33):
\* the catch on lines 38-41 takes over, nothing has been written
GenerateFails(r) ==
    /\ res = NoExchange
    /\ reqs[r].pc \in {"generate", "save"}
    /\ res' = [op |-> reqs[r].op, call |-> reqs[r].call,
               fault |-> IF reqs[r].pc = "generate" THEN "sign" ELSE "save",
               out |-> Raised(IssueFailed(reqs[r].op))]
    /\ reqs' = [reqs EXCEPT ![r] = Idle]
    /\ UNCHANGED <<users, now, rotated>>
    /\ UNCHANGED <<subscriptions, assets>>

\* --------------------------------------------------------- verifyJwt
BearerPrefix == Str("Bearer ")

\* a header value: the string that is the concatenation of its parts
Header(parts) == [parts |-> parts]

\* header.replace("Bearer ", ""): the first "Bearer " goes, the rest stays
ReplaceBearer(header) ==
    LET parts == header.parts
        rest == IF Len(parts) > 0 /\ parts[1] = BearerPrefix THEN Tail(parts) ELSE parts
    IN  IF rest = <<>> THEN EmptyString ELSE rest[1]

\* req.header("Authorization")?.replace("Bearer ", "")
HeaderToken(header) == IF header = Undefined THEN Undefined ELSE ReplaceBearer(header)

\* req.header("Authorization")?.replace("Bearer ", "") || req.cookies?.accessToken
AccessTokenHeaderFirst(request) ==
    Or(HeaderToken(request.headers.Authorization), request.cookies.accessToken)

\* req.cookies?.accessToken || req.header("Authorization")?.replace("Bearer ", "")
AccessTokenOf(request) ==
    Or(request.cookies.accessToken, HeaderToken(request.headers.Authorization))

\* the middleware without its try/catch: what is thrown goes out as it is
verifyJwtUncaught(request) ==
    LET token == AccessTokenOf(request)
        Throws(error) == [nextCalls |-> 0, thrown |-> <<error>>, user |-> Undefined]
    IN  IF ~Truthy(token)
        THEN Throws(ApiError(401, "Unauthorized request"))
        ELSE LET decoded == JwtVerify(token, AccessSecret, now) IN
             IF ~decoded.ok
             THEN Throws(decoded.error)
             ELSE LET user == FindById(decoded.payload._id) IN
                  IF user = Null
                  THEN Throws(ApiError(401, "Invalid Access Token"))
                  ELSE [nextCalls |-> 1, thrown |-> <<>>,
                        user |-> Select(user, {"password", "refreshToken"})]

\* the middleware with .select("-password")
verifyJwtSelectsLess(request) ==
    LET token == AccessTokenOf(request)
        Throws(error) ==
            [nextCalls |-> 0, thrown |-> <<Rethrow401(error, "Invalid Access Token")>>,
             user |-> Undefined]
    IN  IF ~Truthy(token)
        THEN Throws(ApiError(401, "Unauthorized request"))
        ELSE LET decoded == JwtVerify(token, AccessSecret, now) IN
             IF ~decoded.ok
             THEN Throws(decoded.error)
             ELSE LET user == FindById(decoded.payload._id) IN
                  IF user = Null
                  THEN Throws(ApiError(401, "Invalid Access Token"))
                  ELSE [nextCalls |-> 1, thrown |-> <<>>,
                        user |-> Select(user, {"password"})]

\* a guard that also wants the account to hold a refresh token
verifyJwtSessionBound(request) ==
    LET token == AccessTokenOf(request)
        Throws(error) ==
            [nextCalls |-> 0, thrown |-> <<Rethrow401(error, "Invalid Access Token")>>,
             user |-> Undefined]
    IN  IF ~Truthy(token)
        THEN Throws(ApiError(401, "Unauthorized request"))
        ELSE LET decoded == JwtVerify(token, AccessSecret, now) IN
             IF ~decoded.ok
             THEN Throws(decoded.error)
             ELSE LET user == FindById(decoded.payload._id) IN
                  IF user = Null \/ user.refreshToken = Undefined
                  THEN Throws(ApiError(401, "Invalid Access Token"))
                  ELSE [nextCalls |-> 1, thrown |-> <<>>,
                        user |-> Select(user, {"password", "refreshToken"})]

\* the middleware's run: how often it called next(), what it threw, what it
\* left in req.user
verifyJwt(request) ==
    LET token == AccessTokenOf(request)
        Throws(error) ==
            [nextCalls |-> 0, thrown |-> <<Rethrow401(error, "Invalid Access Token")>>,
             user |-> Undefined]
    IN  IF ~Truthy(token)
        THEN Throws(ApiError(401, "Unauthorized request"))
        ELSE LET decoded == JwtVerify(token, AccessSecret, now) IN
             IF ~decoded.ok
             THEN Throws(decoded.error)
             ELSE LET user == FindById(decoded.payload._id) IN
                  IF user = Null
                  THEN Throws(ApiError(401, "Invalid Access Token"))
                  ELSE [nextCalls |-> 1, thrown |-> <<>>,
                        user |-> Select(user, {"password", "refreshToken"})]

\* what a client can send as an access token
AccessPresentable == IssuedAccessTokens \cup {SeedRefreshToken(1), ForgedToken}

\* what a client sends in the Authorization header: nothing, the bare
\* prefix, a token behind the prefix, a token without it
AuthorizationHeaders ==
    LET tokens == {t \in AccessPresentable : t.payload._id = 1} IN
    {Undefined, Header(<<BearerPrefix>>), Header(<<SeedAccessToken(1)>>)}
    \cup {Header(<<BearerPrefix, t>>) : t \in tokens}

GuardedRequests ==
    {[cookies |-> [accessToken |-> c], headers |-> [Authorization |-> h]] :
        c \in AccessPresentable \cup {Undefined, EmptyString},
        h \in AuthorizationHeaders}

\* the requests of the concurrent runs: an issued token in the cookie
GuardedRequestsFew ==
    {[cookies |-> [accessToken |-> c], headers |-> [Authorization |-> Undefined]] :
        c \in IssuedAccessTokens}

\* POST /logout, first handler: verifyJwt
LogoutGuard(r, requests) ==
    /\ Accepts(r)
    /\ \E request \in requests :
         LET guard == verifyJwt(request)
             call == [request |-> request, guard |-> guard, at |-> now]
         IN
         IF guard.thrown = <<>>
         THEN /\ reqs' = [reqs EXCEPT ![r] = [pc |-> "logout", op |-> "logout", call |-> call]]
              /\ UNCHANGED res
         ELSE /\ res' = [op |-> "logout", call |-> call, out |-> Raised(guard.thrown[1])]
              /\ UNCHANGED reqs
    /\ UNCHANGED <<users, now, rotated>>
    /\ UNCHANGED <<subscriptions, assets>>

\* User.findByIdAndUpdate(id, {$set: {refreshToken: undefined}}): an update
\* that carries no value and leaves the field as it is
SetRefreshTokenUndefined(id) == users

\* User.findByIdAndUpdate(id, {$unset: {refreshToken: 1}})
UnsetRefreshToken(id) ==
    IF FindById(id) = Null THEN users
    ELSE [users EXCEPT ![id].refreshToken = Undefined]

\* a logoutUser that insists on a stored refresh token
LogoutUserStrict(r) ==
    /\ res = NoExchange
    /\ reqs[r].pc = "logout"
    /\ LET before == FindById(reqs[r].call.guard.user._id) IN
         /\ users' = UnsetRefreshToken(reqs[r].call.guard.user._id)
         /\ res' = [op |-> "logout", call |-> reqs[r].call, before |-> before,
                    out |-> IF before.refreshToken = Undefined
                            THEN Raised(ApiError(401, "Unauthorized request"))
                            ELSE Json(200, [cleared |-> {"accessToken", "refreshToken"}],
                                      ApiResponse(200, <<>>, "User Logged Out"))]
    /\ reqs' = [reqs EXCEPT ![r] = Idle]
    /\ UNCHANGED <<now, rotated>>
    /\ UNCHANGED <<subscriptions, assets>>

\* POST /logout, second handler: logoutUser
LogoutUser(r) ==
    /\ res = NoExchange
    /\ reqs[r].pc = "logout"
    /\ users' = UnsetRefreshToken(reqs[r].call.guard.user._id)
    /\ res' = [op |-> "logout", call |-> reqs[r].call,
               before |-> FindById(reqs[r].call.guard.user._id),
               out |-> Json(200, [cleared |-> {"accessToken", "refreshToken"}],
                            ApiResponse(200, <<>>, "User Logged Out"))]
    /\ reqs' = [reqs EXCEPT ![r] = Idle]
    /\ UNCHANGED <<now, rotated>>
    /\ UNCHANGED <<subscriptions, assets>>

\* --------------------------------------------------------- loginUser
\* the query without the setters of the schema: the values are matched as sent
FindOneAsSent(username, email) ==
    LET hits == {i \in Ids : /\ users[i] # Null
                             /\ \/ users[i].username = username
                                \/ users[i].email = email}
    IN  IF hits = {} THEN Null
        ELSE users[CHOOSE i \in hits : \A j \in hits : i <= j]

\* User.findOne({$or: [{username}, {email}]}): the first document that matches
FindOne(username, email) ==
    LET hits == {i \in Ids : /\ users[i] # Null
                             /\ \/ users[i].username = Stored(username)
                                \/ users[i].email = Stored(email)}
    IN  IF hits = {} THEN Null
        ELSE users[CHOOSE i \in hits : \A j \in hits : i <= j]

LoginBodies ==
    {[email |-> e, username |-> u, password |-> p] :
        e \in {Undefined} \cup {Emails[i] : i \in 1..(NumAccounts + 1)},
        u \in {Undefined} \cup {Usernames[i] : i \in 1..(NumAccounts + 1)},
        p \in {Passwords[1], Passwords[2]}}

\* the bodies of the concurrent runs: each account's username and password
LoginBodiesFew ==
    {[email |-> Undefined, username |-> Usernames[i], password |-> Passwords[i]] : i \in Ids}

\* the handler's run.  user.isPasswordCorrect is not a method of the document
\* (UserMethods), so calling it on line 184 throws a TypeError and the rest of
\* the handler, lines 187-218, does not run
loginUser(body) ==
    IF ~Truthy(body.email) /\ ~Truthy(body.username)
    THEN Raised(ApiError(400, "username or email is required"))
    ELSE LET user == FindOne(body.username, body.email) IN
         IF user = Null
         THEN Raised(ApiError(404, "User does not exist"))
         ELSE IF "isPasswordCorrect" \notin UserMethods
         THEN Raised(PlainError("TypeError", "user.isPasswordCorrect is not a function"))
         ELSE IF ~BcryptCompare(body.password, user.password)
         THEN Raised(ApiError(401, "Invalid user credentials"))
         ELSE [kind |-> "issue", userId |-> user._id]

\* POST /login, up to the call of generateAccessAndRefreshToken
LoginUser(r, bodies) ==
    /\ Accepts(r)
    /\ \E body \in bodies :
         LET out == loginUser(body)
             call == [body |-> body, at |-> now,
                      found |-> FindOne(body.username, body.email)]
         IN
         IF out.kind = "issue"
         THEN /\ reqs' = [reqs EXCEPT ![r] =
                    [pc |-> "generate", op |-> "login", call |-> call,
                     userId |-> out.userId]]
              /\ UNCHANGED res
         ELSE /\ res' = [op |-> "login", call |-> call, out |-> out]
              /\ UNCHANGED reqs
    /\ UNCHANGED <<users, now, rotated>>
    /\ UNCHANGED <<subscriptions, assets>>

\* ------------------------------------------------------- registerUser
\* the request's answer to "".trim(): the field is missing or blank
Blank(v) == ~Truthy(Trim(v))

\* a username with a character outside [a-zA-Z0-9_]
IllFormedUsername == Str("carol c")
\* an email without the @, a password of four lowercase letters
IllFormedEmail == Str("carol.x.com")
WeakPassword == Str("weak")

\* /^[a-zA-Z0-9_]+$/ and /^\S+@\S+\.\S+$/: white space around the value does
\* not match either
UsernamePattern(v) == v # IllFormedUsername /\ Trim(v) = v
EmailPattern(v) == v # IllFormedEmail /\ Trim(v) = v

\* validateRegistrationInput(data): the messages of the fields that fail
validateRegistrationInput(data) ==
    LET fullName == IF data.fullName = Undefined THEN EmptyString ELSE data.fullName
        username == IF data.username = Undefined THEN EmptyString ELSE data.username
        email == IF data.email = Undefined THEN EmptyString ELSE data.email
        password == IF data.password = Undefined THEN EmptyString ELSE data.password
    IN  (IF Blank(fullName)
         THEN <<"- fullName is required and should not be empty.">> ELSE <<>>)
        \o (IF Blank(username)
            THEN <<"- username is required and should not be empty.">>
            ELSE IF ~UsernamePattern(username)
            THEN <<"- username can only contain letters, numbers, and underscores.">>
            ELSE <<>>)
        \o (IF Blank(email)
            THEN <<"- email is required and should not be empty.">>
            ELSE IF ~EmailPattern(email)
            THEN <<"- email must be a valid email address.">>
            ELSE <<>>)
        \o (IF Blank(password)
            THEN <<"- password is required and should not be empty.">>
            ELSE IF password = WeakPassword
            THEN <<"- password must be between 8 and 100 characters.",
                   "- password must contain at least one uppercase letter.",
                   "- password must contain at least one number.",
                   "- password must contain at least one special character.">>
            ELSE <<>>)

\* the files multer has put on the disk, and the urls Cloudinary gives them
AvatarPath == Str("public/temp/avatar.png")
CoverPath == Str("public/temp/cover.png")
CoverUrl == Str("http://res.cloudinary.com/demo/image/upload/v1/cover.png")
NewAvatarPath == Str("public/temp/avatar2.png")
NewAvatarUrl == Str("http://res.cloudinary.com/demo/image/upload/v2/avatar2.png")

\* a field of req.files: the array of the files multer stored for it
FileList(files) == [list |-> files]

\* Array.isArray(field) && field.length > 0 ? field[0].path : null
LocalPath(field) ==
    IF field # Undefined /\ Len(field.list) > 0 THEN field.list[1].path ELSE Null

\* uploadOnCloudinary(localFilePath): null without a path, and the upload
\* itself gives its result or fails, which the function turns into null
UploadOutcomes(localFilePath) ==
    IF ~Truthy(localFilePath) THEN {Null}
    ELSE {Null, [url |-> IF localFilePath = AvatarPath THEN AvatarUrl
                         ELSE IF localFilePath = CoverPath THEN CoverUrl
                         ELSE NewAvatarUrl]}

\* the pre("save") hook without its hashing
PreSaveKeepsPlain(doc, modified) == doc

\* the pre("save") hook: a modified password is replaced by its digest
PreSave(doc, modified) ==
    IF "password" \in modified
    THEN [doc EXCEPT !.password = BcryptHash(doc.password)]
    ELSE doc

\* a collection without the unique indexes
DuplicateKeyUnindexed(id, doc) == FALSE

\* the unique indexes of username and email: another document holds the value
DuplicateKey(id, doc) ==
    \E j \in Ids : /\ j # id
                   /\ users[j] # Null
                   /\ \/ users[j].username = doc.username
                      \/ users[j].email = doc.email

DuplicateKeyError == PlainError("MongoServerError", "E11000 duplicate key error collection")

\* the _id the store gives the next document
FreeIds == {i \in Ids : users[i] = Null}
NextId == CHOOSE i \in FreeIds : \A j \in FreeIds : i <= j

\* the document User.create builds from what registerUser passes it
NewUser(id, body, avatar, coverImage) ==
    PreSave([_id |-> id,
             username |-> Stored(ToLowerCase(body.username)),
             email |-> Stored(body.email),
             fullName |-> Trim(body.fullName),
             password |-> body.password,
             avatar |-> avatar.url,
             coverImage |-> IF coverImage # Null THEN coverImage.url ELSE NoCoverImage,
             refreshToken |-> Undefined],
            {"username", "email", "fullName", "password", "avatar", "coverImage"})

RegisterFiles ==
    {[avatar |-> a, coverImage |-> c] :
        a \in {Undefined, FileList(<<[path |-> AvatarPath]>>)},
        c \in {Undefined, FileList(<<[path |-> CoverPath]>>)}}

\* the applicant is the one after the seeded accounts; what a client can send
\* in their name
Applicant == NumAccounts + 1

RegisterRequests ==
    {[body |-> [fullName |-> f, username |-> u, email |-> e, password |-> p],
      files |-> files] :
        f \in {FullNames[Applicant], Undefined},
        u \in {Usernames[1], Written(Usernames[1].str, "upper"), Usernames[Applicant],
               Written(Usernames[Applicant].str, "upper"), IllFormedUsername},
        e \in {Emails[1], Written(Emails[1].str, "upper"), Emails[Applicant],
               IllFormedEmail},
        p \in {Passwords[Applicant], WeakPassword},
        files \in RegisterFiles}

\* the requests of the concurrent runs: the applicant's name and address, in
\* small or in capital letters, with an avatar
RegisterRequestsFew ==
    {[body |-> [fullName |-> FullNames[Applicant], username |-> u, email |-> e,
                password |-> Passwords[Applicant]],
      files |-> [avatar |-> FileList(<<[path |-> AvatarPath]>>), coverImage |-> Undefined]] :
        u \in {Usernames[Applicant], Written(Usernames[Applicant].str, "upper")},
        e \in {Emails[Applicant], Written(Emails[Applicant].str, "upper")}}

\* the handler up to its first upload (lines 62-114): the error it throws, or
\* the local paths it goes on with
RegisterCheck(request) ==
    LET validationErrors == validateRegistrationInput(request.body)
        avatarLocalPath == LocalPath(request.files.avatar)
    IN  IF Len(validationErrors) > 0
        THEN [ok |-> FALSE, done |-> <<>>, error |-> ApiError(400, validationErrors)]
        ELSE IF FindOne(request.body.username, request.body.email) # Null
        THEN [ok |-> FALSE, done |-> <<"validate">>,
              error |-> ApiError(409, "Email or Username already exists")]
        ELSE IF ~Truthy(avatarLocalPath)
        THEN [ok |-> FALSE, done |-> <<"validate", "unique">>,
              error |-> ApiError(400, "Avatar file is required")]
        ELSE [ok |-> TRUE, done |-> <<"validate", "unique">>]

\* POST /register, up to the uploads.  The store holds NumAccounts documents:
\* a registration goes on to its uploads while there is room for one
RegisterStart(r, requests) ==
    /\ Accepts(r)
    /\ \E request \in requests :
         LET check == RegisterCheck(request)
             call == [request |-> request, at |-> now,
                      found |-> FindOne(request.body.username, request.body.email)]
         IN  IF check.ok
             THEN /\ FreeIds # {}
                  /\ reqs' = [reqs EXCEPT ![r] =
                        [pc |-> "upload", op |-> "register", call |-> call,
                         done |-> check.done]]
                  /\ UNCHANGED res
             ELSE /\ res' = [op |-> "register", call |-> call, done |-> check.done,
                             created |-> {}, out |-> Raised(check.error)]
                  /\ UNCHANGED reqs
    /\ UNCHANGED <<users, now, rotated>>
    /\ UNCHANGED <<subscriptions, assets>>

\* the uploads without the test of the avatar's result: a failed upload
\* leaves the account without an avatar, as it does for the cover image
RegisterUploadUntested(r) ==
    /\ res = NoExchange
    /\ reqs[r].pc = "upload"
    /\ \E avatar \in UploadOutcomes(LocalPath(reqs[r].call.request.files.avatar)),
          coverImage \in UploadOutcomes(LocalPath(reqs[r].call.request.files.coverImage)) :
         reqs' = [reqs EXCEPT ![r] =
                    [pc |-> "create", op |-> "register", call |-> reqs[r].call,
                     done |-> IF avatar = Null THEN reqs[r].done
                              ELSE Append(reqs[r].done, "upload"),
                     avatar |-> IF avatar = Null THEN [url |-> EmptyString] ELSE avatar,
                     coverImage |-> coverImage]]
    /\ UNCHANGED <<users, now, rotated, res>>
    /\ UNCHANGED <<subscriptions, assets>>

\* lines 117-123: the two uploads
RegisterUpload(r) ==
    /\ res = NoExchange
    /\ reqs[r].pc = "upload"
    /\ \E avatar \in UploadOutcomes(LocalPath(reqs[r].call.request.files.avatar)),
          coverImage \in UploadOutcomes(LocalPath(reqs[r].call.request.files.coverImage)) :
         /\ IF avatar = Null
            THEN /\ res' = [op |-> "register", call |-> reqs[r].call, done |-> reqs[r].done,
                            created |-> {},
                            out |-> Raised(ApiError(400, "Avatar file is required"))]
                 /\ reqs' = [reqs EXCEPT ![r] = Idle]
            ELSE /\ reqs' = [reqs EXCEPT ![r] =
                       [pc |-> "create", op |-> "register", call |-> reqs[r].call,
                        done |-> Append(reqs[r].done, "upload"),
                        avatar |-> avatar, coverImage |-> coverImage]]
                 /\ UNCHANGED res
         /\ assets' = assets \cup {image.url : image \in {avatar, coverImage} \ {Null}}
    /\ UNCHANGED <<users, now, rotated, subscriptions>>

\* lines 127-152: User.create, the read of the new document, the response.
\* The insert fails on a value another document holds; nothing removes a
\* document, so the read on line 137 finds what line 127 wrote
RegisterCreate(r) ==
    /\ res = NoExchange
    /\ reqs[r].pc = "create"
    /\ LET body == reqs[r].call.request.body
           probe == NewUser(0, body, reqs[r].avatar, reqs[r].coverImage)
       IN  IF DuplicateKey(0, probe)
           THEN /\ res' = [op |-> "register", call |-> reqs[r].call, done |-> reqs[r].done,
                           created |-> {}, out |-> Raised(DuplicateKeyError)]
                /\ UNCHANGED users
           ELSE /\ FreeIds # {}
                /\ users' = [users EXCEPT ![NextId] =
                                NewUser(NextId, body, reqs[r].avatar, reqs[r].coverImage)]
                /\ res' = [op |-> "register", call |-> reqs[r].call,
                           done |-> Append(reqs[r].done, "create"),
                           created |-> {NextId},
                           out |-> Json(201, <<>>,
                                    ApiResponse(200,
                                        Select(users'[NextId], {"password", "refreshToken"}),
                                        "User register successfully"))]
    /\ reqs' = [reqs EXCEPT ![r] = Idle]
    /\ UNCHANGED <<now, rotated>>
    /\ UNCHANGED <<subscriptions, assets>>


\* ----------------------------------------- the handlers behind verifyJwt
\* req.user as verifyJwt leaves it: an account of the store, without its
\* password and its refresh token
Principals ==
    {Select(users[i], {"password", "refreshToken"}) : i \in {j \in Ids : users[j] # Null}}

\* the principal of the runs with every operation: the first account
PrincipalsFew == {Select(users[1], {"password", "refreshToken"})}

\* ---------------------------------------------------- changeAccountDetails
AccountBodies ==
    {[fullName |-> f, email |-> e] :
        f \in {FullNames[1], Undefined},
        e \in {Emails[1], Emails[Applicant], Written(Emails[Applicant].str, "upper"),
               Written(Emails[1].str, "padded"), Undefined}}

\* the bodies of the concurrent runs: the applicant's address
AccountBodiesFew ==
    {[fullName |-> FullNames[1], email |-> e] :
        e \in {Emails[Applicant], Written(Emails[Applicant].str, "upper")}}

\* an update that replaces the document by one built from the request, which
\* carries no refresh token
SetAccountDetailsReplacing(id, fullName, email) ==
    [ok |-> TRUE,
     users |-> [users EXCEPT ![id].fullName = Trim(fullName),
                             ![id].email = Stored(email),
                             ![id].refreshToken = Undefined]]

\* User.findByIdAndUpdate(id, {$set: {fullName, email}}, {new: true}): the
\* store after it, or the error of the unique index
SetAccountDetails(id, fullName, email) ==
    LET doc == [users[id] EXCEPT !.fullName = Trim(fullName), !.email = Stored(email)]
    IN  IF DuplicateKey(id, doc)
        THEN [ok |-> FALSE, error |-> DuplicateKeyError]
        ELSE [ok |-> TRUE, users |-> [users EXCEPT ![id] = doc]]

changeAccountDetails(r, principals, bodies) ==
    /\ Accepts(r)
    /\ \E user \in principals, body \in bodies :
         LET call == [user |-> user, body |-> body, at |-> now,
                      before |-> users[user._id]]
         IN  IF ~Truthy(body.fullName) \/ ~Truthy(body.email)
             THEN /\ res' = [op |-> "changeAccountDetails", call |-> call,
                             out |-> Raised(ApiError(400, "All fields are required"))]
                  /\ UNCHANGED users
             ELSE LET update == SetAccountDetails(user._id, body.fullName, body.email) IN
                  IF ~update.ok
                  THEN /\ res' = [op |-> "changeAccountDetails", call |-> call,
                                  out |-> Raised(update.error)]
                       /\ UNCHANGED users
                  ELSE /\ users' = update.users
                       /\ res' = [op |-> "changeAccountDetails", call |-> call,
                                  out |-> Json(200, <<>>,
                                           ApiResponse(200,
                                               Select(users'[user._id], {"password"}),
                                               "Account updated successfully"))]
    /\ UNCHANGED <<now, reqs, rotated>>
    /\ UNCHANGED <<subscriptions, assets>>

\* ---------------------------------------------------- chnageCurrentPassword
\* a string of white space only
BlankString == Written("", "padded")

PasswordBodies ==
    {[currentPassword |-> c, newPassword |-> n] :
        c \in {Passwords[1], Passwords[2], Undefined, BlankString},
        n \in {Passwords[1], Passwords[Applicant], Undefined}}

\* the bodies of the runs with every operation
PasswordBodiesFew ==
    {[currentPassword |-> Passwords[1], newPassword |-> n] :
        n \in {Passwords[Applicant], Undefined}}

\* the handler's run: its outcome and the store it leaves.  user.isPasswordCorrect
\* is not a method of the document (UserMethods), so calling it on line 339
\* throws a TypeError and the rest of the handler, lines 342-360, does not run
chnageCurrentPasswordRun(user, body) ==
    LET Fails(error) == [out |-> Raised(error), users |-> users]
        doc == FindById(user._id)
    IN  IF ~Truthy(body.currentPassword) \/ Trim(body.currentPassword) = EmptyString
        THEN Fails(ApiError(400, "Current password is required"))
        ELSE IF ~Truthy(body.newPassword) \/ Trim(body.newPassword) = EmptyString
        THEN Fails(ApiError(400, "New password is required"))
        ELSE IF doc = Null
        THEN Fails(ApiError(404, "User not found"))
        ELSE IF "isPasswordCorrect" \notin UserMethods
        THEN Fails(PlainError("TypeError", "user.isPasswordCorrect is not a function"))
        ELSE IF ~BcryptCompare(body.currentPassword, doc.password)
        THEN Fails(ApiError(401, "Current password is incorrect"))
        ELSE IF body.currentPassword = body.newPassword
        THEN Fails(ApiError(400, "New password must be different from the current password"))
        ELSE [out |-> Json(200, <<>>, ApiResponse(200, <<>>, "Password changed successfully")),
              users |-> [users EXCEPT ![user._id] =
                            PreSave([doc EXCEPT !.password = body.newPassword],
                                    {"password"})]]

chnageCurrentPassword(r, principals, bodies) ==
    /\ Accepts(r)
    /\ \E user \in principals, body \in bodies :
         LET run == chnageCurrentPasswordRun(user, body) IN
         /\ users' = run.users
         /\ res' = [op |-> "chnageCurrentPassword",
                    call |-> [user |-> user, body |-> body, at |-> now,
                              before |-> users[user._id]],
                    out |-> run.out]
    /\ UNCHANGED <<now, reqs, rotated>>
    /\ UNCHANGED <<subscriptions, assets>>

\* ------------------------------ changeUserAvatar, changeUserCoverImage

\* a replacement that goes on when the old asset could not be deleted
ReplaceAssetLenient(stored, deleted, image, failed) ==
    LET kept == IF Truthy(stored) /\ deleted THEN assets \ {stored} ELSE assets IN
    IF image = Null
    THEN [ok |-> FALSE, stage |-> "upload", assets |-> kept,
          error |-> PlainError("TypeError", "Cannot read properties of null (reading 'url')")]
    ELSE [ok |-> TRUE, url |-> image.url, assets |-> kept \cup {image.url}]

\* lines 424-444, 477-497: the asset behind the stored url is deleted, then
\* the new file uploaded.  deletFromCloudinary throws a 404 when Cloudinary
\* fails; uploadOnCloudinary returns null when the upload fails, and reading
\* .url of null throws a TypeError.  The outcome, and the assets media storage
\* holds after it
ReplaceAsset(stored, deleted, image, failed) ==
    LET kept == IF Truthy(stored) THEN assets \ {stored} ELSE assets IN
    IF Truthy(stored) /\ ~deleted
    THEN [ok |-> FALSE, stage |-> "delete", assets |-> assets,
          error |-> ApiError(404, "Failed to delete file from cloudinary")]
    ELSE IF image = Null
    THEN [ok |-> FALSE, stage |-> "upload", assets |-> kept,
          error |-> PlainError("TypeError", "Cannot read properties of null (reading 'url')")]
    ELSE IF ~Truthy(image.url)
    THEN [ok |-> FALSE, stage |-> "upload", assets |-> kept, error |-> ApiError(400, failed)]
    ELSE [ok |-> TRUE, url |-> image.url, assets |-> kept \cup {image.url}]

\* the handler up to its update (lines 416-442, 469-495), req.file being the
\* file multer stored, or missing
ChangeImageStart(r, principals, op, field, localPath, missing, failed) ==
    /\ Accepts(r)
    /\ \E user \in principals, file \in {Undefined, [path |-> localPath]},
          deleted \in BOOLEAN :
       \E image \in UploadOutcomes(IF file = Undefined THEN Null ELSE file.path) :
         LET call == [user |-> user, file |-> file, at |-> now,
                      before |-> users[user._id], field |-> field,
                      existed |-> users[user._id][field] \in assets,
                      deleted |-> deleted, image |-> image]
             run == ReplaceAsset(users[user._id][field], deleted, image, failed)
         IN  IF file = Undefined
             THEN /\ res' = [op |-> op, call |-> call, stage |-> "file",
                             out |-> Raised(ApiError(400, missing))]
                  /\ UNCHANGED <<reqs, assets>>
             ELSE /\ assets' = run.assets
                  /\ IF run.ok
                     THEN /\ reqs' = [reqs EXCEPT ![r] =
                                [pc |-> "setImage", op |-> op, call |-> call,
                                 field |-> field, url |-> run.url]]
                          /\ UNCHANGED res
                     ELSE /\ res' = [op |-> op, call |-> call, stage |-> run.stage,
                                     out |-> Raised(run.error)]
                          /\ UNCHANGED reqs
    /\ UNCHANGED <<users, now, rotated, subscriptions>>

changeUserAvatar(r, principals) ==
    ChangeImageStart(r, principals, "changeUserAvatar", "avatar", NewAvatarPath,
                     "Avatar image file is missing",
                     "Error while uploading the avatar to Cloudinary")

changeUserCoverImage(r, principals) ==
    ChangeImageStart(r, principals, "changeUserCoverImage", "coverImage", CoverPath,
                     "Cover image file is missing",
                     "Error while uploading the cover image to Cloudinary")

\* an update that is answered without having been applied
SetImageUnapplied(r) ==
    /\ res = NoExchange
    /\ reqs[r].pc = "setImage"
    /\ res' = [op |-> reqs[r].op, call |-> reqs[r].call, stage |-> "set",
               uploaded |-> reqs[r].url,
               out |-> Json(200, <<>>,
                        ApiResponse(200, Select(users[reqs[r].call.user._id], {"password"}),
                                    "Avatar Updated Successfully"))]
    /\ reqs' = [reqs EXCEPT ![r] = Idle]
    /\ UNCHANGED <<users, now, rotated, subscriptions, assets>>

\* lines 445-462, 498-515: User.findByIdAndUpdate(id, {$set: {<field>: url}})
SetImage(r) ==
    /\ res = NoExchange
    /\ reqs[r].pc = "setImage"
    /\ users' = [users EXCEPT ![reqs[r].call.user._id][reqs[r].field] = reqs[r].url]
    /\ res' = [op |-> reqs[r].op, call |-> reqs[r].call, stage |-> "set",
               uploaded |-> reqs[r].url,
               out |-> Json(200, <<>>,
                        ApiResponse(200, Select(users'[reqs[r].call.user._id], {"password"}),
                                    "Avatar Updated Successfully"))]
    /\ reqs' = [reqs EXCEPT ![r] = Idle]
    /\ UNCHANGED <<now, rotated>>
    /\ UNCHANGED <<subscriptions, assets>>

\* ----------------------------------------------------- subscribeChannel
\* ObjectId.toString(), that is toHexString(): the 24 hexadecimal digits of the id, in lower case
ToHexString(id) == [hex |-> id]
\* the same digits with their letters in capitals
UpperHex(id) == [hex |-> id, form |-> "upper"]
\* a string that is not 24 hexadecimal digits
NotAnId == Str("not-an-id")

\* the cast of a value to a path of type Schema.Types.ObjectId, in a filter
\* and in a new document: 24 hexadecimal digits in either case give the
\* ObjectId, any other string a CastError
CastObjectId(v) ==
    IF "hex" \in DOMAIN v
    THEN [ok |-> TRUE, id |-> v.hex]
    ELSE [ok |-> FALSE,
          error |-> PlainError("CastError", "Cast to ObjectId failed")]

\* req.body.channelId: missing, the id of an account or of none, written as
\* toString() writes it or in capitals, or no id at all
ChannelIds ==
    {Undefined, NotAnId}
        \cup {ToHexString(i) : i \in 1..Applicant}
        \cup {UpperHex(i) : i \in Ids}

ChannelIdsFew == {ToHexString(2), ToHexString(Applicant), UpperHex(1)}

\* a lookup that finds no document
SubscriptionFindOneBlind(subscriber, channel) == FALSE

\* Subscription.findOne({subscriber, channel}): whether a document is found
SubscriptionFindOne(subscriber, channel) ==
    subscriptions[<<subscriber, channel>>] > 0

\* lines 660-676: the checks of the body and User.findById(channelId)
subscribeChannel(r, principals, channelIds) ==
    /\ Accepts(r)
    /\ \E user \in principals, channelId \in channelIds :
         LET subscriberId == user._id
             cast == CastObjectId(channelId)
             call == [user |-> user, body |-> [channelId |-> channelId], at |-> now,
                      subscribed |-> IF cast.ok /\ cast.id \in Ids
                                     THEN subscriptions[<<subscriberId, cast.id>>] > 0
                                     ELSE FALSE]
             Fails(error) ==
                 /\ res' = [op |-> "subscribeChannel", call |-> call,
                            out |-> Raised(error)]
                 /\ UNCHANGED reqs
         IN  IF ~Truthy(channelId)
             THEN Fails(ApiError(400, "Channel ID is required."))
             ELSE IF ToHexString(subscriberId) = channelId
             THEN Fails(ApiError(400, "You cannot subscribe to your own channel."))
             ELSE IF ~cast.ok
             THEN Fails(cast.error)
             ELSE IF ~Truthy(FindById(cast.id))
             THEN Fails(ApiError(400, "Channel not found."))
             ELSE /\ reqs' = [reqs EXCEPT ![r] =
                        [pc |-> "findSubscription", call |-> call,
                         subscriber |-> subscriberId, channel |-> cast.id]]
                  /\ UNCHANGED res
    /\ UNCHANGED <<users, now, rotated, subscriptions, assets>>

\* lines 679-686: Subscription.findOne and the refusal of a second subscription
SubscribeFind(r) ==
    /\ res = NoExchange
    /\ reqs[r].pc = "findSubscription"
    /\ IF SubscriptionFindOne(reqs[r].subscriber, reqs[r].channel)
       THEN /\ res' = [op |-> "subscribeChannel", call |-> reqs[r].call,
                       out |-> Raised(ApiError(400, "Already subscribed to this channel."))]
            /\ reqs' = [reqs EXCEPT ![r] = Idle]
       ELSE /\ reqs' = [reqs EXCEPT ![r].pc = "createSubscription"]
            /\ UNCHANGED res
    /\ UNCHANGED <<users, now, rotated, subscriptions, assets>>

\* lines 689-696: Subscription.create, which no index of the collection can
\* refuse, and the response
SubscribeCreate(r) ==
    /\ res = NoExchange
    /\ reqs[r].pc = "createSubscription"
    /\ subscriptions' = [subscriptions EXCEPT
                            ![<<reqs[r].subscriber, reqs[r].channel>>] = @ + 1]
    /\ res' = [op |-> "subscribeChannel", call |-> reqs[r].call,
               out |-> Json(201, <<>>,
                        ApiResponse(200,
                            [subscriber |-> reqs[r].subscriber,
                             channel |-> reqs[r].channel],
                            "Channel subscribed successfully."))]
    /\ reqs' = [reqs EXCEPT ![r] = Idle]
    /\ UNCHANGED <<users, now, rotated, assets>>

\* ------------------------------------------------------------- the reads
getAccountDetails(r, principals) ==
    /\ Accepts(r)
    /\ \E user \in principals :
         res' = [op |-> "getAccountDetails",
                 call |-> [user |-> user, at |-> now, before |-> users[user._id]],
                 out |-> Json(200, <<>>,
                          ApiResponse(200, Select(users[user._id], {"password"}),
                                      "User Details Fetched"))]
    /\ UNCHANGED <<users, now, reqs, rotated>>
    /\ UNCHANGED <<subscriptions, assets>>

\* req.user of getUserChannelProfile: an account, or none when the route is
\* not behind verifyJwt
Viewers == Principals \cup {Undefined}
ViewersFew == PrincipalsFew \cup {Undefined}

\* req.params.username
ProfileNames ==
    {Usernames[i] : i \in 1..Applicant}
        \cup {Written(Usernames[1].str, "upper"), BlankString, Undefined}

ProfileNamesFew == {Usernames[1], Usernames[Applicant], BlankString}

\* a $lookup that joins on the other end of the subscription
LookupOtherEnd(id, foreignField) ==
    IF foreignField = "subscriber"
    THEN {<<s, id>> : s \in Ids}
    ELSE {<<id, c>> : c \in Ids}

\* $lookup from "subscriptions" with localField _id: the ends of the
\* documents whose foreignField is the id
Lookup(id, foreignField) ==
    IF foreignField = "channel"
    THEN {<<s, id>> : s \in Ids}
    ELSE {<<id, c>> : c \in Ids}

\* $size of a looked-up array: the documents between the ends, counted
RECURSIVE Size(_)
Size(ends) ==
    IF ends = {} THEN 0
    ELSE LET end == CHOOSE e \in ends : TRUE
         IN  subscriptions[end] + Size(ends \ {end})

\* $in: [req.user?._id, "$subscribers.subscriber"]
InSubscribers(viewer, id) ==
    IF viewer = Undefined THEN FALSE
    ELSE \E end \in Lookup(id, "channel") :
            end[1] = viewer._id /\ subscriptions[end] > 0

\* lines 536-585: the stages of the aggregation after $match, for one account
ChannelProfile(viewer, id) ==
    [_id |-> id, username |-> users[id].username, email |-> users[id].email,
     fullName |-> users[id].fullName, avatar |-> users[id].avatar,
     coverImage |-> users[id].coverImage,
     subscribersCount |-> Size(Lookup(id, "channel")),
     channelSubscribedToCount |-> Size(Lookup(id, "subscriber")),
     isSubscribed |-> InSubscribers(viewer, id)]

\* the aggregation matches the stored username with username?.toLowerCase()
getUserChannelProfile(r, viewers, usernames) ==
    /\ Accepts(r)
    /\ \E viewer \in viewers, username \in usernames :
         LET channel == {i \in Ids : users[i] # Null
                                     /\ users[i].username = ToLowerCase(username)}
             call == [user |-> viewer, params |-> [username |-> username], at |-> now]
         IN  res' = [op |-> "getUserChannelProfile", call |-> call,
                     out |-> IF Blank(username)
                             THEN Raised(ApiError(400, "username is missing"))
                             ELSE IF channel = {}
                             THEN Raised(ApiError(400, "Channel does not exists"))
                             ELSE Json(200, <<>>,
                                   ApiResponse(200,
                                       ChannelProfile(viewer,
                                           CHOOSE i \in channel : TRUE),
                                       "User channel fetched successfully."))]
    /\ UNCHANGED <<users, now, reqs, rotated>>
    /\ UNCHANGED <<subscriptions, assets>>

\* lines 652-656: res.status(200), json(...) sets the status and calls
\* express.json, which builds a middleware: no response is sent
getWatchHistory(r, principals) ==
    /\ Accepts(r)
    /\ \E user \in principals :
         res' = [op |-> "getWatchHistory",
                 call |-> [user |-> user, at |-> now, before |-> users[user._id]],
                 out |-> [kind |-> "none", status |-> 200]]
    /\ UNCHANGED <<users, now, reqs, rotated>>
    /\ UNCHANGED <<subscriptions, assets>>

\* ------------------------------------------------------ specifications
\* requests overlap: every slot serves, the clients send issued tokens
Next ==
    \/ Tick
    \/ Deliver
    \/ \E r \in Reqs : RefreshStart(r, RefreshRequestsFew)
    \/ \E r \in Reqs : GenerateSign(r)
    \/ \E r \in Reqs : GenerateSave(r)
    \/ \E r \in Reqs : LogoutGuard(r, GuardedRequestsFew)
    \/ \E r \in Reqs : LogoutUser(r)
    \/ \E r \in Reqs : LoginUser(r, LoginBodiesFew)

Spec == Init /\ [][Next]_vars

\* one request at a time, the clients send whatever they can
NextSerial ==
    \/ Tick
    \/ Deliver
    \/ RefreshStart(1, RefreshRequests)
    \/ GenerateSign(1)
    \/ GenerateSave(1)
    \/ LogoutGuard(1, GuardedRequests)
    \/ LogoutUser(1)
    \/ LoginUser(1, LoginBodies)

SpecSerial == Init /\ [][NextSerial]_vars

\* one request at a time, the clients send the tokens they were issued
NextRotation ==
    \/ Tick
    \/ Deliver
    \/ RefreshStart(1, RefreshRequestsFew)
    \/ GenerateSign(1)
    \/ GenerateSave(1)
    \/ LogoutGuard(1, GuardedRequestsFew)
    \/ LogoutUser(1)
    \/ LoginUser(1, LoginBodiesFew)

SpecRotation == Init /\ [][NextRotation]_vars

\* one request at a time, and the signing or the store can fail
NextFaulty ==
    \/ NextSerial
    \/ GenerateFails(1)

SpecFaulty == Init /\ [][NextFaulty]_vars

\* registrations and changes of account details overlap
NextAccounts ==
    \/ Deliver
    \/ \E r \in Reqs : RegisterStart(r, RegisterRequestsFew)
    \/ \E r \in Reqs : RegisterUpload(r)
    \/ \E r \in Reqs : RegisterCreate(r)
    \/ \E r \in Reqs : changeAccountDetails(r, Principals, AccountBodiesFew)

SpecAccounts == Init /\ [][NextAccounts]_vars


\* one request at a time: registrations, changes of the password and of the
\* account details, the clients sending whatever they can
NextAccountsSerial ==
    \/ Deliver
    \/ RegisterStart(1, RegisterRequests)
    \/ RegisterUpload(1)
    \/ RegisterCreate(1)
    \/ chnageCurrentPassword(1, Principals, PasswordBodies)
    \/ changeAccountDetails(1, Principals, AccountBodies)

SpecAccountsSerial == Init /\ [][NextAccountsSerial]_vars

\* one request at a time: every operation of the controller, the operations
\* behind verifyJwt in the name of the first account, all within the second
\* the seeded tokens were signed in
NextService ==
    \/ Deliver
    \/ RefreshStart(1, RefreshRequestsFew)
    \/ GenerateSign(1)
    \/ GenerateSave(1)
    \/ LogoutGuard(1, GuardedRequestsFew)
    \/ LogoutUser(1)
    \/ LoginUser(1, LoginBodiesFew)
    \/ RegisterStart(1, RegisterRequestsFew)
    \/ RegisterUpload(1)
    \/ RegisterCreate(1)
    \/ chnageCurrentPassword(1, PrincipalsFew, PasswordBodiesFew)
    \/ changeAccountDetails(1, PrincipalsFew, AccountBodiesFew)
    \/ changeUserAvatar(1, PrincipalsFew)
    \/ changeUserCoverImage(1, PrincipalsFew)
    \/ SetImage(1)
    \/ subscribeChannel(1, PrincipalsFew, ChannelIdsFew)
    \/ SubscribeFind(1)
    \/ SubscribeCreate(1)
    \/ getAccountDetails(1, PrincipalsFew)
    \/ getUserChannelProfile(1, ViewersFew, ProfileNamesFew)
    \/ getWatchHistory(1, PrincipalsFew)

SpecService == Init /\ [][NextService]_vars

\* one request at a time: replacements of the avatar and of the cover image
NextMedia ==
    \/ Deliver
    \/ changeUserAvatar(1, Principals)
    \/ changeUserCoverImage(1, Principals)
    \/ SetImage(1)

SpecMedia == Init /\ [][NextMedia]_vars

\* subscriptions of the first account overlap
NextSubscriptions ==
    \/ Deliver
    \/ \E r \in Reqs : subscribeChannel(r, PrincipalsFew, ChannelIdsFew)
    \/ \E r \in Reqs : SubscribeFind(r)
    \/ \E r \in Reqs : SubscribeCreate(r)

SpecSubscriptions == Init /\ [][NextSubscriptions]_vars

\* one request at a time: subscriptions and reads of profiles, the clients
\* sending whatever they can
NextSubscriptionsSerial ==
    \/ Deliver
    \/ subscribeChannel(1, Principals, ChannelIds)
    \/ SubscribeFind(1)
    \/ SubscribeCreate(1)
    \/ getUserChannelProfile(1, Viewers, ProfileNames)

SpecSubscriptionsSerial == Init /\ [][NextSubscriptionsSerial]_vars

\* the envelopes by themselves: a handler answers with new ApiResponse or
\* throws new ApiError, with any status
StatusCodes == {199, 200, 201, 399, 400, 401, 404, 409, 500}
Payloads == {Null, Undefined, EmptyString, Str("ok")}

Respond ==
    /\ res = NoExchange
    /\ \E statusCode \in StatusCodes, data \in Payloads,
          message \in {"Success", "Something went wrong."} :
         res' = [op |-> "respond",
                 out |-> Json(statusCode, <<>>, ApiResponse(statusCode, data, message))]
    /\ UNCHANGED <<users, now, reqs, rotated, subscriptions, assets>>

Reject ==
    /\ res = NoExchange
    /\ \E statusCode \in StatusCodes,
          message \in {"Success", "Something went wrong."} :
         res' = [op |-> "reject", out |-> Raised(ApiError(statusCode, message))]
    /\ UNCHANGED <<users, now, reqs, rotated, subscriptions, assets>>

NextEnvelopes ==
    \/ Deliver
    \/ Respond
    \/ Reject

SpecEnvelopes == Init /\ [][NextEnvelopes]_vars

\* ---------------------------------------------------------- properties
\* the exchange that has just completed is one of refreshAccessToken
RefreshDone == res.op = "refresh"

\* the refresh token the client sent was, when the handler read it, correctly
\* signed and unexpired
PresentedSigned ==
    /\ Truthy(res.call.incoming)
    /\ JwtVerify(res.call.incoming, RefreshSecret, res.call.at).ok

ReuseError == ApiError(401, "Refresh token is expired or used")

\* C1: a refreshAccessToken call that presents a token an earlier call of the
\* account has rotated fails with the 401 "Refresh token is expired or used",
\* the token being still correctly signed and unexpired
C1_RotatedTokenRefused ==
    (RefreshDone /\ res.call.stale /\ PresentedSigned)
        => res.out = Raised(ReuseError)

\* the token the client sent was, when the handler read the account, the one
\* stored on the account it names
PresentedStored ==
    /\ PresentedSigned
    /\ res.call.found # Null
    /\ res.call.found.refreshToken = res.call.incoming

\* the response carries, in its cookies and in its body, a pair signed for the
\* account during the call
ReturnsPairFor(id, data) ==
    /\ res.out.cookies = [accessToken |-> data.accessToken,
                          refreshToken |-> data.refreshToken]
    /\ \E t \in res.call.at..now :
         /\ data.accessToken = generateAccessToken(users[id], t)
         /\ data.refreshToken = generateRefreshToken(users[id], t)

\* C2: refreshAccessToken, called with a correctly signed, unexpired refresh
\* token that equals the value stored on the account, succeeds, returns a
\* freshly signed access/refresh pair, and leaves the account's stored
\* refreshToken equal to the refresh token it returned
C2_StoredTokenRotates ==
    (RefreshDone /\ PresentedStored) =>
        /\ res.out.kind = "json"
        /\ res.out.status = 200
        /\ res.out.body.success
        /\ ReturnsPairFor(res.call.found._id, res.out.body.data)
        /\ users[res.call.found._id].refreshToken = res.out.body.data.refreshToken

\* a rotation has replaced the stored token by another one
C2_Witness ==
    /\ RefreshDone /\ PresentedStored
    /\ res.out.kind = "json"
    /\ res.out.body.data.refreshToken # res.call.incoming
    /\ users[res.call.found._id].refreshToken = res.out.body.data.refreshToken

\* the exchange that has just completed is one of loginUser
LoginDone == res.op = "login"

\* the body names an account and carries its password
CorrectCredentials ==
    /\ res.call.found # Null
    /\ BcryptCompare(res.call.body.password, res.call.found.password)

\* C3: loginUser, called with an existing account's username or email and
\* its correct password, succeeds, returns an access token and a refresh
\* token, and leaves the account's stored refreshToken equal to the refresh
\* token it returned
C3_CorrectLoginSucceeds ==
    (LoginDone /\ CorrectCredentials) =>
        /\ res.out.kind = "json"
        /\ res.out.status = 200
        /\ ReturnsPairFor(res.call.found._id, res.out.body.data)
        /\ users[res.call.found._id].refreshToken = res.out.body.data.refreshToken

\* the exchange that has just completed is a logout that passed verifyJwt
LogoutDone == res.op = "logout" /\ res.out.kind = "json"

\* C4: logoutUser, running for the principal verifyJwt has authenticated,
\* leaves that account's stored refreshToken without a value, whatever it
\* held before and whatever tokens the request carried
C4_LogoutClearsStored ==
    LogoutDone => users[res.call.guard.user._id].refreshToken = Undefined

\* a logout has cleared a field that held a token
C4_Witness ==
    /\ LogoutDone
    /\ res.before.refreshToken # Undefined
    /\ users[res.call.guard.user._id].refreshToken = Undefined

\* every refresh token a client can present: those signed for an account at
\* any second so far, and what else a request can carry in their place
AllRefreshTokens ==
    {generateRefreshToken(UserDoc(i, Undefined), t) : i \in Ids, t \in 0..now}
    \cup RefreshPresentable

\* the tokens refreshAccessToken would go on to rotate, if presented now
Accepted == {t \in AllRefreshTokens : RefreshCheck(t).ok}

\* C5: in every reachable state and for every account, at most one refresh
\* token would be accepted by refreshAccessToken: the stored refreshToken is
\* no value or one token, and a token is accepted only if it equals it
C5_OneAcceptedToken ==
    LET accepted == Accepted IN
    /\ \A i \in Ids :
          /\ Cardinality({t \in accepted : t.payload._id = i}) <= 1
          /\ users[i] # Null =>
                users[i].refreshToken = Undefined \/ IsJwt(users[i].refreshToken)
    /\ \A t \in accepted :
          /\ users[t.payload._id] # Null
          /\ t = users[t.payload._id].refreshToken

\* the stored token of an account is accepted while another token issued to
\* the account, still signed and unexpired, is not
C5_Witness ==
    \E i \in Ids :
        /\ users[i] # Null
        /\ users[i].refreshToken \in Accepted
        /\ \E t \in IssuedRefreshTokens :
             /\ t # users[i].refreshToken
             /\ JwtVerify(t, RefreshSecret, now).ok
             /\ t.payload._id = i

\* request r's rotation writes the token it has signed and answers
RotationWrites(r) ==
    /\ reqs[r].pc = "save"
    /\ reqs[r].op = "refresh"
    /\ reqs'[r] = Idle

\* another request has rotated the token r presented since r read the account
RotatedMeanwhile(r) ==
    /\ ~reqs[r].call.stale
    /\ rotated[reqs[r].userId] = reqs[r].call.incoming

\* C6: a rotation writes the new refresh token only if the account's stored
\* value still equals the presented token at the time of the write, so of
\* the refreshAccessToken requests that overlap and present the same token at
\* most one succeeds
C6_RotationComparesAndSwaps ==
    [][\A r \in Reqs :
         RotationWrites(r) =>
            /\ users[reqs[r].userId].refreshToken = reqs[r].call.incoming
            /\ ~RotatedMeanwhile(r)]_vars

\* the runs of verifyJwt on record: of the exchange that has just completed
\* and of the requests whose handler has yet to run
GuardCalls ==
    (IF res.op = "logout" THEN {res.call} ELSE {})
    \cup {reqs[r].call : r \in {q \in Reqs : reqs[q].pc = "logout"}}

\* the account an access token names, if the token verified when the
\* middleware read it: Null when there is none, Undefined when it did not verify
AccountNamed(token, at) ==
    IF Truthy(token) /\ JwtVerify(token, AccessSecret, at).ok
    THEN FindById(token.payload._id)
    ELSE Undefined

\* the three cases of rejection
NoAccessToken(c) == ~Truthy(AccessTokenOf(c.request))
VerificationFails(c) ==
    /\ ~NoAccessToken(c)
    /\ AccountNamed(AccessTokenOf(c.request), c.at) = Undefined
AccountMissing(c) == AccountNamed(AccessTokenOf(c.request), c.at) = Null

\* C7: verifyJwt rejects with exactly one 401 error when the request has no
\* access token, when the token's signature or expiry does not verify, and
\* when the account the token names does not exist; it rejects with no
\* other status
C7_GuardRejectsWith401 ==
    \A c \in GuardCalls :
        /\ (NoAccessToken(c) \/ VerificationFails(c) \/ AccountMissing(c)) =>
              /\ c.guard.nextCalls = 0
              /\ Len(c.guard.thrown) = 1
        /\ \A k \in 1..Len(c.guard.thrown) :
              ResponseStatus(Raised(c.guard.thrown[k])) = 401
        /\ (res.op = "logout" /\ res.out.kind = "error") =>
              /\ res.out.error \in {res.call.guard.thrown[k] : k \in 1..Len(res.call.guard.thrown)}
              /\ ResponseStatus(res.out) = 401

\* a correctly signed, unexpired token of an account that does not exist is
\* rejected
C7_Witness ==
    /\ res.op = "logout"
    /\ res.out.kind = "error"
    /\ AccountMissing(res.call)
    /\ ResponseStatus(res.out) = 401

\* the runs of verifyJwt after which the handler behind it runs or has run
HandlerCalls ==
    (IF LogoutDone THEN {res.call} ELSE {})
    \cup {reqs[r].call : r \in {q \in Reqs : reqs[q].pc = "logout"}}

\* C8: the handler behind verifyJwt runs only after the access token has
\* been verified and the account it names found; req.user is then that
\* account without its password digest and its refreshToken; and per
\* request verifyJwt calls next() once or raises an error, never both
C8_HandlerBehindGuard ==
    /\ \A c \in HandlerCalls :
          LET account == AccountNamed(AccessTokenOf(c.request), c.at) IN
          /\ account \notin {Undefined, Null}
          /\ c.guard.nextCalls = 1
          /\ DOMAIN c.guard.user = (DOMAIN account) \ {"password", "refreshToken"}
          /\ \A f \in DOMAIN c.guard.user : c.guard.user[f] = account[f]
    /\ \A c \in GuardCalls :
          \/ c.guard.nextCalls = 1 /\ c.guard.thrown = <<>>
          \/ c.guard.nextCalls = 0 /\ Len(c.guard.thrown) = 1

\* the handler is about to run for an account that holds a refresh token
C8_Witness ==
    \E r \in Reqs :
        /\ reqs[r].pc = "logout"
        /\ reqs[r].call.guard.nextCalls = 1
        /\ users[reqs[r].call.guard.user._id].refreshToken # Undefined
        /\ "refreshToken" \notin DOMAIN reqs[r].call.guard.user

\* the token of an Authorization: Bearer header, Undefined without one
BearerToken(request) ==
    LET header == request.headers.Authorization IN
    IF header # Undefined /\ Len(header.parts) = 2 /\ header.parts[1] = BearerPrefix
    THEN header.parts[2]
    ELSE Undefined

\* verifyJwt has decided on the token: it passes the request on as the
\* token's account, or rejects it because the token names none
DecidedOn(c, token) ==
    LET account == AccountNamed(token, c.at) IN
    IF account \in {Undefined, Null}
    THEN c.guard.nextCalls = 0
    ELSE c.guard.nextCalls = 1 /\ c.guard.user._id = account._id

\* C9: when a request carries both an accessToken cookie and an
\* Authorization: Bearer header, verifyJwt decides on the cookie's token
\* alone; it decides on the header's token only when there is no cookie token
C9_CookieTakesPrecedence ==
    \A c \in GuardCalls :
        LET cookie == c.request.cookies.accessToken
            bearer == BearerToken(c.request)
        IN  /\ (Truthy(cookie) /\ Truthy(bearer)) => DecidedOn(c, cookie)
            /\ (Truthy(bearer) /\ ~DecidedOn(c, cookie)) =>
                  ~Truthy(cookie) /\ DecidedOn(c, bearer)

\* a request is rejected on its cookie's token though its header carries a
\* token that would have passed
C9_Witness ==
    /\ res.op = "logout"
    /\ res.out.kind = "error"
    /\ Truthy(res.call.request.cookies.accessToken)
    /\ AccountNamed(BearerToken(res.call.request), res.call.at) \notin {Undefined, Null}

\* C10: loginUser fails with 400 when neither username nor email is present,
\* else with 404 when no account matches the username or email, else with
\* 401 when the password does not verify; in each case no token is issued
C10_LoginFailsInOrder ==
    LoginDone =>
        LET body == res.call.body
            missing == ~Truthy(body.username) /\ ~Truthy(body.email)
            absent == res.call.found = Null
            mismatch == ~absent /\ ~BcryptCompare(body.password, res.call.found.password)
        IN  /\ missing => ResponseStatus(res.out) = 400
            /\ (~missing /\ absent) => ResponseStatus(res.out) = 404
            /\ (~missing /\ mismatch) => ResponseStatus(res.out) = 401
            /\ (missing \/ absent \/ mismatch) => res.out.kind = "error"

\* the request carries no refresh token: none in the cookie and none in the
\* body, or the placeholder a client sends for a missing value
NoRefreshToken(request) ==
    LET cookie == request.cookies.refreshToken
        body == request.body.refreshToken
    IN  \/ ~Truthy(cookie) /\ ~Truthy(body)
        \/ cookie = LiteralUndefined
        \/ ~Truthy(cookie) /\ body = LiteralUndefined

MissingTokenError == ApiError(401, "Unauthorized request, refresh token is undefined")

\* C11: refreshAccessToken fails with 401 when the refresh token is absent
\* from both cookie and body or is the literal "undefined", and it fails
\* before it verifies anything or looks an account up: with its own error,
\* not one of the verification
C11_MissingTokenRefused ==
    (RefreshDone /\ NoRefreshToken(res.call.request)) =>
        /\ res.out = Raised(MissingTokenError)
        /\ ResponseStatus(res.out) = 401

\* the literal "undefined" has been refused as a missing token
C11_Witness ==
    /\ RefreshDone
    /\ res.call.incoming = LiteralUndefined
    /\ res.out = Raised(MissingTokenError)

\* the token a refresh request carries does not verify, or names no account
RefreshTokenInvalid(call) ==
    /\ ~NoRefreshToken(call.request)
    /\ Trim(call.incoming) # LiteralUndefined
    /\ \/ ~JwtVerify(call.incoming, RefreshSecret, call.at).ok
       \/ call.found = Null

\* C12: when the verification of the incoming refresh token fails or the
\* account it names does not exist, refreshAccessToken raises one 401 error,
\* issues no token and does not write the account
C12_InvalidTokenRefused ==
    [][(RefreshDone' /\ RefreshTokenInvalid(res'.call)) =>
          /\ res'.out.kind = "error"
          /\ ResponseStatus(res'.out) = 401
          /\ users' = users
          /\ \A r \in Reqs : reqs'[r] = reqs[r]]_vars

\* a correctly signed, unexpired token that names no account has been refused
C12_Witness ==
    /\ RefreshDone
    /\ PresentedSigned
    /\ res.call.found = Null
    /\ ResponseStatus(res.out) = 401

\* the exchange that has just completed is one whose token issuance failed
IssuanceFailed == "fault" \in DOMAIN res

\* C13: whenever the signing or the persisting of the refresh token in
\* generateAccessAndRefreshToken fails, the calling operation, login or
\* refresh rotation, answers with an Internal (500) error
C13_IssuanceFailureIs500 ==
    IssuanceFailed =>
        /\ res.out.kind = "error"
        /\ ResponseStatus(res.out) = 500

\* the exchange that has just completed is one of logoutUser: verifyJwt had
\* passed the request on
LogoutRan == res.op = "logout" /\ res.call.guard.nextCalls = 1

\* C14: logoutUser for an authenticated principal returns success whether
\* the account's stored refreshToken is present or absent, and whatever
\* the client holds; called twice in a row it succeeds both times and
\* leaves the field empty
C14_LogoutAlwaysSucceeds ==
    /\ LogoutRan =>
          /\ res.out.kind = "json"
          /\ res.out.status = 200
          /\ res.out.body.success
          /\ res.out.cookies.cleared = {"accessToken", "refreshToken"}
          /\ users[res.call.guard.user._id].refreshToken = Undefined
    /\ \A r \in Reqs :
          (reqs[r].pc = "logout" /\ res = NoExchange) => ENABLED LogoutUser(r)

\* a logout has succeeded for an account that held no refresh token: the
\* second of two in a row
C14_Witness ==
    /\ LogoutRan
    /\ res.out.kind = "json"
    /\ res.before.refreshToken = Undefined
    /\ users[res.call.guard.user._id].refreshToken = Undefined

\* the accounts of the store
Accounts == {i \in Ids : users[i] # Null}

\* C17: at every moment, under every interleaving of registerUser and
\* changeAccountDetails, no two accounts hold the same stored username and no
\* two hold the same stored email
C17_IdentityIsUnique ==
    \A i, j \in Accounts :
        i # j => /\ users[i].username # users[j].username
                 /\ users[i].email # users[j].email

\* a registration that had found the name and the address free, and had its
\* avatar uploaded, was refused by the store because an overlapping request
\* had taken one of them
C17_Witness ==
    /\ res.op = "register"
    /\ res.done = <<"validate", "unique", "upload">>
    /\ res.out.kind = "error"
    /\ res.out.error = DuplicateKeyError
    /\ \E i \in Accounts : \/ users[i].username = Stored(res.call.request.body.username)
                           \/ users[i].email = Stored(res.call.request.body.email)

TokenOperations == {"login", "refresh", "logout"}

\* C15: the stored refreshToken of an account changes only in a step that
\* completes a successful login, refresh rotation or logout; an account that
\* registerUser creates has none; every other operation, every read and every
\* failing request leaves the field as it was
C15_RefreshTokenFrame ==
    [][\A i \in Ids :
         /\ (users[i] # Null /\ users'[i] # Null
                /\ users'[i].refreshToken # users[i].refreshToken)
              => /\ res'.op \in TokenOperations
                 /\ res'.out.kind = "json"
                 /\ res'.out.status = 200
         /\ (users[i] = Null /\ users'[i] # Null)
              => /\ res'.op = "register"
                 /\ users'[i].refreshToken = Undefined]_vars

\* an account whose token a rotation has replaced has had its avatar changed,
\* and holds the token it held before
C15_Witness ==
    /\ res.op = "changeUserAvatar"
    /\ res.out.kind = "json"
    /\ LET id == res.call.user._id IN
         /\ users[id].avatar # res.call.before.avatar
         /\ rotated[id] # Undefined
         /\ users[id].refreshToken # Undefined
         /\ users[id].refreshToken = res.call.before.refreshToken

\* the value is a bcrypt digest, not a string
IsDigest(v) == DOMAIN v = {"bcrypt"}

\* the request has just created an account
Registered == res.op = "register" /\ res.created # {}

PasswordDone == res.op = "chnageCurrentPassword"

\* C16: every stored password is a digest; after registerUser it is the
\* digest of the password submitted, which bcrypt.compare accepts, and not
\* the password itself; after chnageCurrentPassword it is the digest of the
\* new password when the call succeeded, and what it was when it failed
C16_PasswordStoredAsDigest ==
    /\ \A i \in Accounts : IsDigest(users[i].password)
    /\ Registered =>
         LET plain == res.call.request.body.password IN
         \A id \in res.created :
            /\ users[id].password # plain
            /\ BcryptCompare(plain, users[id].password)
    /\ PasswordDone =>
         LET id == res.call.user._id IN
         IF res.out.kind = "json"
         THEN BcryptCompare(res.call.body.newPassword, users[id].password)
         ELSE users[id].password = res.call.before.password

\* an account has just been registered with a password that passed validation
C16_Witness ==
    /\ Registered
    /\ res.out.kind = "json"
    /\ res.call.request.body.password = Passwords[Applicant]
    /\ \E id \in res.created : users[id].password = BcryptHash(Passwords[Applicant])

\* an account holds the username or the email of the body, as the store
\* keeps them
InUse(body) ==
    \E i \in Accounts : \/ users[i].username = ToLowerCase(Trim(body.username))
                        \/ users[i].email = ToLowerCase(Trim(body.email))

RegisterSteps == <<"validate", "unique", "upload", "create">>

\* C19: an account appears in the store only in the create step of a
\* registerUser call that has validated its input, found the username and the
\* email free and had its avatar uploaded, in that order; a call whose avatar
\* file is missing, or whose avatar upload has not succeeded, ends in an error
\* and leaves the store as it was
C19_CreateComesLast ==
    [][/\ \A i \in Ids :
            (users[i] = Null /\ users'[i] # Null)
                => \E r \in Reqs :
                     /\ reqs[r].pc = "create"
                     /\ reqs[r].done = SubSeq(RegisterSteps, 1, 3)
                     /\ validateRegistrationInput(reqs[r].call.request.body) = <<>>
                     /\ reqs[r].avatar # Null
                     /\ users'[i].avatar = reqs[r].avatar.url
                     /\ reqs'[r] = Idle
                     /\ res'.done = RegisterSteps
                     /\ res'.created = {i}
       /\ (/\ res = NoExchange
           /\ res'.op = "register"
           /\ \/ LocalPath(res'.call.request.files.avatar) = Null
              \/ \A k \in 1..Len(res'.done) : res'.done[k] # "upload")
            => /\ res'.out.kind = "error"
               /\ res'.created = {}
               /\ users' = users]_vars

\* a registration has gone through its four steps and created the account
C19_Witness ==
    /\ res.op = "register"
    /\ res.done = RegisterSteps
    /\ res.out.kind = "json"
    /\ res.out.status = 201
    /\ \E i \in res.created : users[i].avatar = AvatarUrl

\* C20: after a chnageCurrentPassword call the stored password is the digest
\* of newPassword, and the call has succeeded, if currentPassword verified
\* against the digest stored before and newPassword is given and differs from
\* it; otherwise the call has failed and the stored digest is the one it was
C20_PasswordReplacedIffVerified ==
    PasswordDone =>
        LET id == res.call.user._id
            body == res.call.body
            before == res.call.before.password
        IN  IF /\ BcryptCompare(body.currentPassword, before)
               /\ Truthy(body.newPassword)
               /\ body.newPassword # body.currentPassword
            THEN /\ res.out.kind = "json"
                 /\ users[id].password = BcryptHash(body.newPassword)
            ELSE /\ res.out.kind = "error"
                 /\ users[id].password = before

ImageOperations == {"changeUserAvatar", "changeUserCoverImage"}
ImageDone == res.op \in ImageOperations

\* the url the account stores in the field the request is about
StoredImage == users[res.call.user._id][res.call.field]

\* C21: after a changeUserAvatar or changeUserCoverImage call whose upload
\* failed, the asset the account references, which media storage held when the
\* call began, is still in media storage
C21_OldAssetOutlivesFailedUpload ==
    (/\ ImageDone
     /\ res.call.file # Undefined
     /\ res.call.image = Null
     /\ res.call.existed)
        => StoredImage \in assets

\* C22: a changeUserAvatar or changeUserCoverImage call in which the deletion
\* of the previous asset failed ends in an error, and the account stores the
\* reference it stored before
C22_FailedDeleteFailsAll ==
    (/\ ImageDone
     /\ res.call.file # Undefined
     /\ Truthy(res.call.before[res.call.field])
     /\ ~res.call.deleted)
        => /\ res.out.kind = "error"
           /\ StoredImage = res.call.before[res.call.field]

\* the deletion of an avatar of the account failed while the upload would
\* have worked
C22_Witness ==
    /\ res.op = "changeUserAvatar"
    /\ res.call.file # Undefined
    /\ res.call.before.avatar = AvatarUrl
    /\ ~res.call.deleted
    /\ res.call.image # Null
    /\ res.out.kind = "error"
    /\ ResponseStatus(res.out) = 404

\* C23: whenever changeUserAvatar or changeUserCoverImage answers with a
\* success envelope, the account stores the url of the asset the call uploaded
C23_SuccessMeansPersisted ==
    (ImageDone /\ res.out.kind = "json")
        => /\ res.call.image # Null
           /\ StoredImage = res.call.image.url

\* a cover image has replaced none: the account stores the uploaded url
C23_Witness ==
    /\ res.op = "changeUserCoverImage"
    /\ res.out.kind = "json"
    /\ res.call.before.coverImage = NoCoverImage
    /\ StoredImage = CoverUrl
    /\ CoverUrl \in assets

\* the error is one the application typed: an ApiError, with its statusCode
Typed(error) == "statusCode" \in DOMAIN error

\* C24: every request a controller operation has finished with has got a
\* success envelope, or one typed ApiError; none is left without a response
\* and none ends in an error that is not typed
C24_EveryRequestAnswered ==
    res # NoExchange
        => \/ res.out.kind = "json"
           \/ res.out.kind = "error" /\ Typed(res.out.error)

\* C25: no subscription has one account at both of its ends: a
\* subscribeChannel call that names the caller's own id has created none
C25_NoSelfSubscription ==
    \A i \in Ids : subscriptions[<<i, i>>] = 0

\* C26: between one subscriber and one channel there is at most one
\* subscription, whichever way subscribeChannel calls overlap
C26_OneSubscriptionPerPair ==
    \A edge \in Ids \X Ids : subscriptions[edge] <= 1

\* a subscribeChannel call ends in this step
SubscribeEnds == res = NoExchange /\ res' # NoExchange /\ res'.op = "subscribeChannel"

\* C27: a subscribeChannel call of a subscriber for a channel, made when an
\* earlier call of that subscriber for that channel has succeeded, fails and
\* leaves the subscriptions as they are
C27_SecondSubscriptionRefused ==
    [][(SubscribeEnds /\ res'.call.subscribed)
          => /\ res'.out.kind = "error"
             /\ subscriptions' = subscriptions]_vars

\* the first account has subscribed to the second, and its next call for the
\* second has been refused
C27_Witness ==
    /\ res.op = "subscribeChannel"
    /\ res.call.user._id = 1
    /\ res.call.body.channelId = ToHexString(2)
    /\ res.call.subscribed
    /\ res.out.kind = "error"
    /\ res.out.error.message = "Already subscribed to this channel."
    /\ subscriptions[<<1, 2>>] = 1

\* the channelId of the call is the id of an account of the store
NamesAccount(channelId) ==
    /\ "hex" \in DOMAIN channelId
    /\ channelId.hex \in Ids
    /\ users[channelId.hex] # Null

\* C28: the channel of every subscription is an account of the store, and a
\* subscribeChannel call whose channelId names no account has failed
C28_ChannelIsAnAccount ==
    /\ \A edge \in Ids \X Ids : subscriptions[edge] > 0 => users[edge[2]] # Null
    /\ (res.op = "subscribeChannel" /\ ~NamesAccount(res.call.body.channelId))
          => res.out.kind = "error"

\* the first account, subscribed to the second, has asked for a channel that
\* no account has the id of
C28_Witness ==
    /\ res.op = "subscribeChannel"
    /\ res.call.user._id = 1
    /\ res.call.body.channelId = ToHexString(Applicant)
    /\ res.out.kind = "error"
    /\ res.out.error.message = "Channel not found."
    /\ subscriptions[<<1, 2>>] = 1
    /\ \A edge \in (Ids \X Ids) \ {<<1, 2>>} : subscriptions[edge] = 0

\* the username of the call is the username of no account of the store
NamesNoChannel(username) ==
    /\ ~Blank(username)
    /\ \A i \in Ids : users[i] # Null => users[i].username # Stored(username)

\* C29: a subscribeChannel call for a subscription that exists fails with
\* 409, and a subscribeChannel or getUserChannelProfile call that names an
\* account which does not exist fails with 404
C29_ConflictAndNotFound ==
    /\ (res.op = "subscribeChannel" /\ res.call.subscribed)
          => ResponseStatus(res.out) = 409
    /\ (/\ res.op = "subscribeChannel"
        /\ "hex" \in DOMAIN res.call.body.channelId
        /\ ~NamesAccount(res.call.body.channelId))
          => ResponseStatus(res.out) = 404
    /\ (res.op = "getUserChannelProfile" /\ NamesNoChannel(res.call.params.username))
          => ResponseStatus(res.out) = 404

\* the subscriptions between the pairs of accounts, one element for each
SubscriptionsAmong(pairs) ==
    {<<pair, k>> \in pairs \X (1..NumReqs) : k <= subscriptions[pair]}

\* C30: getUserChannelProfile for the username of an account answers with
\* that account's profile, in which subscribersCount is the number of
\* subscriptions to it, channelSubscribedToCount the number of subscriptions
\* by it, and isSubscribed tells whether the caller, if there is one, has a
\* subscription to it
C30_ProfileCounts ==
    \A id \in Ids :
        (/\ res.op = "getUserChannelProfile"
         /\ users[id] # Null
         /\ res.call.params.username = users[id].username)
          => /\ res.out.kind = "json"
             /\ LET data == res.out.body.data
                     viewer == res.call.user
                 IN  /\ data.username = users[id].username
                     /\ data.subscribersCount
                          = Cardinality(SubscriptionsAmong(
                                {pair \in Ids \X Ids : pair[2] = id}))
                     /\ data.channelSubscribedToCount
                          = Cardinality(SubscriptionsAmong(
                                {pair \in Ids \X Ids : pair[1] = id}))
                     /\ data.isSubscribed
                          = (/\ viewer # Undefined
                             /\ subscriptions[<<viewer._id, id>>] > 0)

\* the first account reads the profile of the second, to which it has
\* subscribed and which has subscribed to it
C30_Witness ==
    /\ res.op = "getUserChannelProfile"
    /\ res.call.user # Undefined
    /\ res.call.user._id = 1
    /\ res.call.params.username = Usernames[2]
    /\ subscriptions[<<1, 2>>] = 1
    /\ subscriptions[<<2, 1>>] = 1
    /\ subscriptions[<<2, 2>>] = 0
    /\ res.out.kind = "json"
    /\ res.out.body.data.subscribersCount = 1
    /\ res.out.body.data.channelSubscribedToCount = 1
    /\ res.out.body.data.isSubscribed

\* C31: the access guard in front of a handler lets a request whose access
\* token is absent or does not verify proceed, without a principal, instead
\* of failing it
C31_GuardLetsAnonymousProceed ==
    \A c \in GuardCalls :
        (NoAccessToken(c) \/ VerificationFails(c))
          => /\ c.guard.thrown = <<>>
             /\ c.guard.nextCalls = 1
             /\ c.guard.user = Undefined

\* the account objects a response carries: its data, or the user of its data
AccountsIn(out) ==
    IF out.kind # "json" THEN {}
    ELSE LET data == out.body.data IN
         (IF "username" \in DOMAIN data THEN {data} ELSE {})
         \cup (IF "user" \in DOMAIN data THEN {data.user} ELSE {})

\* the fields of an account whose values are strings, tokens or digests
TextFields ==
    {"username", "email", "fullName", "avatar", "coverImage", "password",
     "refreshToken"}

\* C32: no response carries the password digest of an account, and the
\* account a successful login returns has no refreshToken either
C32_NoDigestInResponses ==
    res # NoExchange
      => /\ \A account \in AccountsIn(res.out) :
               /\ "password" \notin DOMAIN account
               /\ \A f \in TextFields \cap DOMAIN account : ~IsDigest(account[f])
         /\ (res.op = "login" /\ res.out.kind = "json")
               => /\ "user" \in DOMAIN res.out.body.data
                  /\ "refreshToken" \notin DOMAIN res.out.body.data.user

\* the details of an account that stores a digest have been returned
C32_Witness ==
    /\ res.op = "getAccountDetails"
    /\ res.out.kind = "json"
    /\ res.out.body.data.username = Usernames[1]
    /\ IsDigest(users[1].password)
    /\ AccountsIn(res.out) = {res.out.body.data}

\* C33: the success of every ApiResponse is true exactly when its
\* statusCode is below 400, and every ApiError has data null and success false
C33_EnvelopeFlags ==
    res # NoExchange
      => /\ res.out.kind = "json"
               => res.out.body.success = (res.out.body.statusCode < 400)
         /\ (res.out.kind = "error" /\ Typed(res.out.error))
               => /\ res.out.error.data = Null
                  /\ res.out.error.success = FALSE

\* an ApiResponse of status 400 reports no success
C33_Witness ==
    /\ res.op = "respond"
    /\ res.out.body.statusCode = 400
    /\ ~res.out.body.success

\* C34: the stored refreshToken of an account that logoutUser has emptied
\* stays empty until a login of the account succeeds, whatever requests were
\* under way when the logout ran, so that no token issued before the logout
\* is accepted
C34_LogoutOutlastsRefresh ==
    [][\A i \in Ids :
          (/\ users[i] # Null
           /\ users[i].refreshToken = Undefined
           /\ users'[i].refreshToken # Undefined)
            => /\ res'.op = "login"
               /\ res'.out.kind = "json"]_vars

\* C35: a loginUser with the correct credentials of an account that holds the
\* refresh token of an earlier login succeeds, the account then stores the
\* token this login returned, and refreshAccessToken no longer accepts the
\* earlier one
C35_SecondLoginSupersedes ==
    (/\ LoginDone
     /\ CorrectCredentials
     /\ IsJwt(res.call.found.refreshToken))
      => /\ res.out.kind = "json"
         /\ users[res.call.found._id].refreshToken = res.out.body.data.refreshToken
         /\ ~RefreshCheck(res.call.found.refreshToken).ok

\* C36: verifyJwt passes a request on exactly when its access token verifies
\* at that second and names an account of the store, whatever refreshToken
\* the account stores: a token issued before a logout or a rotation passes
\* after it
C36_GuardIgnoresRefreshToken ==
    \A c \in GuardCalls :
        (c.guard.nextCalls = 1)
          = (AccountNamed(AccessTokenOf(c.request), c.at) \notin {Undefined, Null})

\* the access token signed with the seed pair has passed the guard after a
\* logout emptied the stored refreshToken of its account
C36_Witness ==
    \E r \in Reqs :
        /\ reqs[r].pc = "logout"
        /\ reqs[r].call.guard.nextCalls = 1
        /\ AccessTokenOf(reqs[r].call.request) = SeedAccessToken(1)
        /\ users[1].refreshToken = Undefined

\* a loginUser or refreshAccessToken call fails in this step without having
\* reached the issuance of tokens
FailsBeforeIssuance ==
    /\ res = NoExchange
    /\ res' # NoExchange
    /\ res'.op \in {"login", "refresh"}
    /\ res'.out.kind = "error"
    /\ reqs' = reqs

\* C37: a loginUser or refreshAccessToken call that fails before tokens are
\* issued leaves the stored refreshToken of every account as it was; after a
\* call that presented a rotated token, the token the account stores is
\* still accepted
C37_FailureKeepsStoredToken ==
    [][FailsBeforeIssuance
         => /\ \A i \in Ids :
                  users[i] # Null => users'[i].refreshToken = users[i].refreshToken
            /\ \A i \in Ids :
                  (/\ res'.op = "refresh"
                   /\ res'.call.stale
                   /\ res'.call.found # Null
                   /\ res'.call.found._id = i
                   /\ RefreshCheck(users[i].refreshToken).ok)
                    => (RefreshCheck(users[i].refreshToken).ok)']_vars

\* a rotated token has been refused, and the token that replaced it is still
\* the stored one and accepted
C37_Witness ==
    /\ RefreshDone
    /\ res.out = Raised(ReuseError)
    /\ res.call.stale
    /\ users[1].refreshToken # res.call.incoming
    /\ res.call.found.refreshToken = users[1].refreshToken
    /\ RefreshCheck(users[1].refreshToken).ok

\* the operations that answer with the caller's account
AccountReads ==
    {"getAccountDetails", "changeAccountDetails", "changeUserAvatar",
     "changeUserCoverImage"}

\* C38: the account that getAccountDetails, changeAccountDetails,
\* changeUserAvatar or changeUserCoverImage returns carries no stored
\* refresh token
C38_NoRefreshTokenInAccount ==
    (res.op \in AccountReads /\ res.out.kind = "json")
      => \A account \in AccountsIn(res.out) :
            "refreshToken" \in DOMAIN account => account.refreshToken = Undefined
====
